---- MODULE Spec2Model ----
(***************************************************************************)
(* Model of src/app.py: the Streamlit script that drives the repository    *)
(* analysis pipeline (fetch -> structure -> analyze -> synthesize) and the *)
(* pull-request publication.  Streamlit re-executes the whole script from  *)
(* top to bottom on every user event; st.session_state survives between    *)
(* executions, every other name is rebuilt.  One action of the model is    *)
(* one complete execution of the script for one user event.                *)
(***************************************************************************)
EXTENDS Integers, Sequences, FiniteSets, TLC

\* ------------------------------------------------------------------ bounds
MaxRuns == 2          \* analysis runs that reach the try block, per session
MaxPublishes == 2     \* create_pull_request calls, per session
MaxNow == 2           \* last clock tick of the session
TicksPerSecond == 2   \* clock resolution: ticks per second of time.time()
MaxFixes == 6         \* longest priority_fixes sequence of a report

\* -------------------------------------------------------- program constants
TopFixes == 5         \* priorities[:5], lines 372 and 722
MaxScore == 100       \* the 0-100 scale of a dimension score, line 167

\* ------------------------------------------------------------ input values
Urls == {"", "https://github.com/o/r1", "https://github.com/o/r2"}
ApiKeys == {"", "key"}
Tokens == {"", "ghp"}
Paths == {"a.py", "b.py"}

\* Python's None, and the truth value Python gives a str / dict / None.
None == [tag |-> "None"]
IsNone(x) == x = None
StrTruthy(s) == s # ""
DictTruthy(d) == DOMAIN d # {}

\* ---------------------------------------------------------------- messages
Msg(level, text, cause) == [level |-> level, text |-> text, cause |-> cause]
E_KEYS == Msg("error", "Please provide both API keys in the sidebar", "")
E_NOFILES == Msg("error", "Could not fetch repository files. Please check:", "")
S_FETCHED == Msg("success", "Fetched files from repository", "")
S_ANALYZED == Msg("success", "Deep analysis complete - 7 dimensions analyzed!", "")
E_ANALYSIS(cause) == Msg("error", "Error during analysis", cause)
S_FIXES == Msg("success", "Generated improvements for files", "")
I_NOFIXES == Msg("info", "No automatic fixes generated.", "")
S_PR == Msg("success", "Pull request created successfully!", "")
E_PR_FAILED == Msg("error", "Failed to create pull request. Check your GitHub token permissions.", "")
E_PR_ERROR(cause) == Msg("error", "Error creating PR", cause)

\* ------------------------------------------------------------------- state
VARIABLES
  analysis_complete,  \* st.session_state.analysis_complete
  analysis_results,   \* st.session_state.analysis_results: None or the stored dict
  repo_url,           \* widget: repository URL text input
  google_api_key,     \* widget: sidebar LLM key
  github_token,       \* widget: sidebar hosting token
  now,                \* time.time(), in ticks of 1/TicksPerSecond second
  runs,               \* analysis runs started so far (labels what a run fetched)
  calls,              \* collaborator calls of the last script execution, in order
  msgs,               \* pipeline status messages of the last script execution
  displayed,          \* the last execution rendered the results section
  offered,            \* the last execution rendered the Create Pull Request button
  pr_call,            \* arguments of the last execution's create_pull_request, or None
  run_locals,         \* files, analysis, updated_files bound by the last try block
  branches,           \* branch_name of every create_pull_request call, in order
  completed,          \* the runs in which all four collaborator calls returned
  analyze_clicked,    \* analyze_btn (line 205) in the last execution
  pr_url,             \* what the last execution's create_pull_request gave, or "unset"
  view                \* what the results section and the PR body expose of the report

vars == <<analysis_complete, analysis_results, repo_url, google_api_key,
          github_token, now, runs, calls, msgs, displayed, offered, pr_call,
          run_locals, branches, completed, analyze_clicked, pr_url, view>>

\* What a collaborator returns in run r for repository u is labelled with
\* both: the label stands for the content.
Label(r, u) == [run |-> r, src |-> u]
FileSet(S, r, u) == [p \in S |-> Label(r, u)]
Report(r, u) == [run |-> r, src |-> u]

\* The outcomes the collaborators can produce in one analysis run: each call
\* returns or raises; get_repo_files returns the FileSet over o.paths and
\* generate_missing_docstrings the DocPatchSet over o.patched.  A field the run
\* never reads (a later stage's, after a raise or an empty FileSet) is fixed.
AllOracles ==
  [fetch : {"ok", "raise"}, paths : SUBSET Paths,
   structure : {"ok", "raise"}, analyze : {"ok", "raise"},
   synth : {"ok", "raise"}, patched : SUBSET Paths]
Reads(o) ==
  LET s1 == o.fetch = "ok" /\ o.paths # {}
      s2 == s1 /\ o.structure = "ok"
      s3 == s2 /\ o.analyze = "ok"
      s4 == s3 /\ o.synth = "ok"
  IN /\ (o.fetch = "raise" => o.paths = {})
     /\ (~s1 => o.structure = "ok")
     /\ (~s2 => o.analyze = "ok")
     /\ (~s3 => o.synth = "ok")
     /\ (~s4 => o.patched = {})
Oracles == {o \in AllOracles : Reads(o)}
NoOracle == [fetch |-> "ok", paths |-> {}, structure |-> "ok", analyze |-> "ok",
             synth |-> "ok", patched |-> {}]
PrOutcomes == {"url", "none", "raise"}

\* ---------------------------------------------------- analysis workflow
\* The session state as one value.
Session(c, r) == [complete |-> c, results |-> r]

\* The names the try block has bound once `returned` of its calls returned
\* (lines 237, 259, 270); an unbound name holds the empty mapping.
Unbound == [p \in {} |-> 0]
Locals(returned, files, analysis, updated_files) ==
  [returned |-> returned,
   files |-> IF returned >= 1 THEN files ELSE Unbound,
   analysis |-> IF returned >= 3 THEN analysis ELSE Unbound,
   updated_files |-> IF returned >= 4 THEN updated_files ELSE Unbound]
NoLocals == Locals(0, Unbound, Unbound, Unbound)

\* A store that updates the previous dict instead of replacing it.
StoreResultsMerged(old, analysis, updated_files, total_files, url) ==
  LET prev == IF IsNone(old) THEN Unbound ELSE old.updated_files
  IN [tag |-> "dict", analysis |-> analysis,
      updated_files |-> updated_files @@ prev,
      total_files |-> total_files, repo_url |-> url]

\* Lines 282-287: the dict assigned to st.session_state.analysis_results.  `old`
\* is the value it replaces.
StoreResults(old, analysis, updated_files, total_files, url) ==
  [tag |-> "dict", analysis |-> analysis, updated_files |-> updated_files,
   total_files |-> total_files, repo_url |-> url]

\* An except branch that resets the session.
AbortedResets(old, cs, ms, cause) ==
  [session |-> [complete |-> FALSE, results |-> None], calls |-> cs,
   msgs |-> ms \cup {E_ANALYSIS(cause)}]

\* Lines 292-298: the except branch.  Nothing is written to the session.
Aborted(old, cs, ms, cause) ==
  [session |-> old, calls |-> cs, msgs |-> ms \cup {E_ANALYSIS(cause)}]

\* An empty FileSet branch that resets the session.
NoFilesResets(old, cs) ==
  [session |-> [complete |-> FALSE, results |-> None], calls |-> cs,
   msgs |-> {E_NOFILES}]

\* Lines 239-245: the empty FileSet branch.  Nothing is written either.
NoFiles(old, cs) ==
  [session |-> old, calls |-> cs, msgs |-> {E_NOFILES}]

\* Lines 231-298: the try block of one analysis run r on repository url.
AnalysisRun(old, url, r, o) ==
  LET c1 == <<"get_repo_files">>
      c2 == Append(c1, "get_repo_structure")
      c3 == Append(c2, "deep_analyze")
      c4 == Append(c3, "generate_missing_docstrings")
      files == FileSet(o.paths, r, url)
      analysis == Report(r, url)
      updated_files == FileSet(o.patched, r, url)
      L(k) == [locals |-> Locals(k, files, analysis, updated_files)]
  IN IF o.fetch = "raise" THEN L(0) @@ Aborted(old, c1, {}, "get_repo_files")
     ELSE IF ~DictTruthy(files)
       THEN L(1) @@ NoFiles(old, c1)
     ELSE IF o.structure = "raise"
       THEN L(1) @@ Aborted(old, c2, {S_FETCHED}, "get_repo_structure")
     ELSE IF o.analyze = "raise"
       THEN L(2) @@ Aborted(old, c3, {S_FETCHED}, "deep_analyze")
     ELSE IF o.synth = "raise"
       THEN L(3) @@ Aborted(old, c4, {S_FETCHED, S_ANALYZED},
                            "generate_missing_docstrings")
     ELSE [session |-> Session(TRUE, StoreResults(old.results, analysis, updated_files,
                                                  Cardinality(DOMAIN files), url)),
           calls |-> c4, msgs |-> {S_FETCHED, S_ANALYZED},
           locals |-> Locals(4, files, analysis, updated_files)]

\* A guard that accepts only the session's first run.
RunRequestedOnce(analyze_btn, url) == analyze_btn /\ StrTruthy(url) /\ runs = 0

\* A key guard that forgets the hosting token.
HaveKeysApiKeyOnly(key, token) == StrTruthy(key)

\* Line 218 and line 219: the two guards in front of the run.
RunRequested(analyze_btn, url) == analyze_btn /\ StrTruthy(url)
HaveKeys(key, token) == StrTruthy(key) /\ StrTruthy(token)

\* Lines 218-298.  `started` says the try block was entered.
AnalysisWorkflow(analyze_btn, old, url, key, token, r, o) ==
  IF ~RunRequested(analyze_btn, url)
    THEN [session |-> old, calls |-> <<>>, msgs |-> {}, started |-> FALSE,
          locals |-> NoLocals]
  ELSE IF ~HaveKeys(key, token)
    THEN [session |-> old, calls |-> <<>>, msgs |-> {E_KEYS}, started |-> FALSE,
          locals |-> NoLocals]
  ELSE [started |-> TRUE] @@ AnalysisRun(old, url, r, o)

\* ------------------------------------------------------ results section
\* Line 301: the results section is rendered.
ShowsResults(ss) == ss.complete /\ ~IsNone(ss.results)

\* An auto-fix section rendered whatever the patch set holds.
OffersPublishAlways(results) == TRUE

\* Line 671: the auto-fix section, with the Create Pull Request button in it.
OffersPublish(results) == DictTruthy(results.updated_files)

\* A publish block that also runs at the end of an analysis.
PublishWithAnalyze(analyze_btn, create_pr_btn) == create_pr_btn \/ analyze_btn

\* Line 699: the publish block runs.  Both buttons are in scope there.
PublishRequested(analyze_btn, create_pr_btn) == create_pr_btn

\* Line 703: f"ai-agent-improvements-{int(time.time())}" at clock tick t.
BranchName(t) == <<"ai-agent-improvements-", t \div TicksPerSecond>>

\* A call that publishes to the repository named in the URL input.
PullRequestCallWidgetUrl(results, url, token, t) ==
  [tag |-> "call", repo_url |-> url, branch_name |-> BranchName(t),
   files_to_update |-> results.updated_files, token |-> token]

\* Lines 702-738: the create_pull_request call and the token its GitHubHelper
\* is built with.  results, the repo_url widget, the github_token widget and
\* the clock are the names in scope.
PullRequestCall(results, url, token, t) ==
  [tag |-> "call", repo_url |-> results.repo_url, branch_name |-> BranchName(t),
   files_to_update |-> results.updated_files, token |-> token]

\* A publish block that reports success whatever the call gave.
PublishReportSuccess(p) == S_PR

\* Lines 740-751: what the publish block reports for outcome p.
PublishReport(p) ==
  IF p = "url" THEN S_PR
  ELSE IF p = "none" THEN E_PR_FAILED
  ELSE E_PR_ERROR("create_pull_request")

\* Lines 301-753, with the report's own rendering (lines 308-666) left to the
\* presentation layer.
ResultsSection(ss, analyze_btn, create_pr_btn, url, token, t, p) ==
  IF ~ShowsResults(ss)
    THEN [displayed |-> FALSE, offered |-> FALSE, msgs |-> {}, pr |-> None]
  ELSE IF ~OffersPublish(ss.results)
    THEN [displayed |-> TRUE, offered |-> FALSE, msgs |-> {I_NOFIXES}, pr |-> None]
  ELSE IF ~PublishRequested(analyze_btn, create_pr_btn)
    THEN [displayed |-> TRUE, offered |-> TRUE, msgs |-> {S_FIXES}, pr |-> None]
  ELSE [displayed |-> TRUE, offered |-> TRUE, msgs |-> {S_FIXES, PublishReport(p)},
        pr |-> PullRequestCall(ss.results, url, token, t)]

\* ------------------------------------------------------ report rendering
\* dict.get(k, default) on a mapping d.
Get(d, k, default) == IF k \in DOMAIN d THEN d[k] ELSE default

\* Lines 115-126: the seven dimension keys, in the chart's order.
Dimensions ==
  <<"security", "performance", "architecture", "code_quality",
    "documentation", "dependencies", "best_practices">>
DimensionSet == {Dimensions[i] : i \in 1..Len(Dimensions)}

\* A lookup that marks a missing score with -1.
GetScoreNegative(scores, dim) == Get(scores, dim, 0 - 1)

\* scores.get(dim, 0): lines 119-125 and 431, 493, 529, 560, 590, 617, 643.
GetScore(scores, dim) == Get(scores, dim, 0)

\* Lines 118-126: the values the radar chart plots.
ChartValues(scores) == [i \in 1..Len(Dimensions) |-> GetScore(scores, Dimensions[i])]

\* analysis.get(dim, {}): lines 430, 492, 528, 559, 589, 616, 642.
GetDetail(analysis, dim) == Get(analysis, dim, Unbound)

\* Lines 408-666: the chart and the seven tabs of one analysis dict.
RenderScores(analysis) ==
  LET scores == Get(analysis, "scores", Unbound)
  IN [chart |-> ChartValues(scores),
      tabs |-> [d \in DimensionSet |->
                 [score |-> GetScore(scores, d), detail |-> GetDetail(analysis, d)]]]

Min(a, b) == IF a <= b THEN a ELSE b

\* A slice taken after moving the HIGH entries to the front.
HighFirst(s) ==
  LET idx(pr) == {i \in 1..Len(s) : (s[i].priority = "HIGH") = pr}
      F[S \in SUBSET (1..Len(s))] ==
        IF S = {} THEN <<>>
        ELSE LET m == CHOOSE i \in S : \A j \in S : i <= j
             IN <<s[m]>> \o F[S \ {m}]
  IN F[idx(TRUE)] \o F[idx(FALSE)]
TopSorted(s) == SubSeq(HighFirst(s), 1, Min(TopFixes, Len(s)))

\* priorities[:5], lines 372 and 722.
Top(s) == SubSeq(s, 1, Min(TopFixes, Len(s)))

\* Line 722: one line of the PR body per priority fix.
PrLine(p) == <<"- ", p.category, ": ", p.action>>
PrBodyFixes(priorities) ==
  [i \in 1..Len(Top(priorities)) |-> PrLine(Top(priorities)[i])]

\* Lines 369-399: the priority fixes the results section lists.
ShownFixes(priorities) == Top(priorities)

NoView == [stage |-> "none"]

\* ------------------------------------------------------------- the script
\* One execution of the script, lines 1-765, with widget values url, key and
\* token, the two buttons, and the collaborators' outcomes o and p.
Rerun(url, key, token, analyze, create_pr_btn, o, p) ==
  LET old == Session(analysis_complete, analysis_results)
      w == AnalysisWorkflow(analyze, old, url, key, token, runs + 1, o)
      d == ResultsSection(w.session, analyze, create_pr_btn, url, token, now, p)
      published == ~IsNone(d.pr)
  IN /\ (w.started => runs < MaxRuns)
     /\ (published => Len(branches) < MaxPublishes /\ now < MaxNow)
     /\ analysis_complete' = w.session.complete
     /\ analysis_results' = w.session.results
     /\ repo_url' = url
     /\ google_api_key' = key
     /\ github_token' = token
     /\ runs' = IF w.started THEN runs + 1 ELSE runs
     /\ calls' = IF published THEN Append(w.calls, "create_pull_request") ELSE w.calls
     /\ msgs' = w.msgs \cup d.msgs
     /\ displayed' = d.displayed
     /\ offered' = d.offered
     /\ pr_call' = d.pr
     /\ run_locals' = w.locals
     /\ completed' = IF w.started /\ w.locals.returned = 4
                        THEN completed \cup {runs + 1} ELSE completed
     /\ branches' = IF published THEN Append(branches, d.pr.branch_name) ELSE branches
     /\ now' = IF published THEN now + 1 ELSE now
     /\ analyze_clicked' = analyze
     /\ pr_url' = IF published THEN p ELSE "unset"
     /\ view' = view

\* Lines 26-29 and the first execution of the script: empty inputs, no button.
\* The report's contents are left abstract in the session's state machine.
Init ==
  /\ view = NoView
  /\ analysis_complete = FALSE
  /\ analysis_results = None
  /\ repo_url = ""
  /\ google_api_key \in ApiKeys
  /\ github_token \in Tokens
  /\ now = 0
  /\ runs = 0
  /\ calls = <<>>
  /\ msgs = {}
  /\ displayed = FALSE
  /\ offered = FALSE
  /\ pr_call = None
  /\ run_locals = NoLocals
  /\ branches = <<>>
  /\ completed = {}
  /\ analyze_clicked = FALSE
  /\ pr_url = "unset"

\* The user clicks Analyze Repository (line 205).
Analyze ==
  \E o \in IF RunRequested(TRUE, repo_url) /\ HaveKeys(google_api_key, github_token)
             THEN Oracles ELSE {NoOracle} :
    Rerun(repo_url, google_api_key, github_token, TRUE, FALSE, o, "none")

\* The user clicks Create Pull Request (line 697); the button exists only on a
\* page that rendered it.
CreatePullRequest ==
  /\ offered
  /\ \E p \in PrOutcomes :
       Rerun(repo_url, google_api_key, github_token, FALSE, TRUE, NoOracle, p)

\* The user edits a text input (lines 76, 83, 197): the script runs again with
\* the new value and no button pressed.
EditRepoUrl ==
  \E u \in Urls \ {repo_url} :
    Rerun(u, google_api_key, github_token, FALSE, FALSE, NoOracle, "none")
EditApiKey ==
  \E k \in ApiKeys \ {google_api_key} :
    Rerun(repo_url, k, github_token, FALSE, FALSE, NoOracle, "none")
EditToken ==
  \E t \in Tokens \ {github_token} :
    Rerun(repo_url, google_api_key, t, FALSE, FALSE, NoOracle, "none")

\* Time passes between two executions of the script.
Tick ==
  /\ now < MaxNow
  /\ now' = now + 1
  /\ UNCHANGED <<analysis_complete, analysis_results, repo_url, google_api_key,
                 github_token, runs, calls, msgs, displayed, offered, pr_call,
                 run_locals, branches, completed, analyze_clicked, pr_url, view>>

Next ==
  \/ Analyze
  \/ CreatePullRequest
  \/ EditRepoUrl
  \/ EditApiKey
  \/ EditToken
  \/ Tick

Spec == Init /\ [][Next]_vars

\* ------------------------------------------- rendering one stored report
\* What deep_analyze may hand back: a dict in which the scores mapping, any of
\* the seven dimension details and priority_fixes may be missing.  A score that
\* is present lies on the 0-100 scale.
ScoreValues == {0, MaxScore}
ScoreMaps == UNION {[D -> ScoreValues] : D \in SUBSET DimensionSet}
FullScores == [d \in DimensionSet |-> 50]
SomeIssues == [issues |-> <<"issue">>]
Details(D) == [d \in D |-> SomeIssues]
FixPool ==
  {[priority |-> "HIGH", category |-> "Security", action |-> "Fix immediately"],
   [priority |-> "LOW", category |-> "Documentation", action |-> "Add docstrings"]}
FixSeqs == UNION {[1..n -> FixPool] : n \in 0..MaxFixes}
Reports ==
  {("scores" :> m) @@ Details(DimensionSet) : m \in ScoreMaps}
    \cup {("scores" :> m) @@ Details(DOMAIN m) : m \in ScoreMaps}
    \cup {Details(D) : D \in SUBSET DimensionSet}
    \cup {("priority_fixes" :> f) @@ ("scores" :> FullScores) @@ Details(DimensionSet) :
            f \in FixSeqs}

\* The session right after an execution in which run 1 completed and stored
\* report a with a one-file patch set (lines 282-288).
InitRender ==
  \E a \in Reports :
    LET u == "https://github.com/o/r1"
        files == FileSet({"a.py"}, 1, u)
    IN /\ view = NoView
       /\ analysis_complete = TRUE
       /\ analysis_results = StoreResults(None, a, files, 1, u)
       /\ repo_url = u
       /\ google_api_key = "key"
       /\ github_token = "ghp"
       /\ now = 0
       /\ runs = 1
       /\ calls = <<"get_repo_files", "get_repo_structure", "deep_analyze",
                    "generate_missing_docstrings">>
       /\ msgs = {S_FETCHED, S_ANALYZED, S_FIXES}
       /\ displayed = TRUE
       /\ offered = TRUE
       /\ pr_call = None
       /\ run_locals = Locals(4, files, a, files)
       /\ branches = <<>>
       /\ completed = {1}
       /\ analyze_clicked = TRUE
       /\ pr_url = "unset"

Frame ==
  UNCHANGED <<analysis_complete, analysis_results, repo_url, google_api_key,
              github_token, now, runs, calls, msgs, displayed, offered, pr_call,
              run_locals, branches, completed, analyze_clicked, pr_url>>

\* Lines 304-666: the results section renders the stored report.
RenderResults ==
  /\ view.stage = "none"
  /\ ShowsResults(Session(analysis_complete, analysis_results))
  /\ LET analysis == analysis_results.analysis
         priorities == Get(analysis, "priority_fixes", <<>>)
     IN view' = [stage |-> "rendered", fixes |-> ShownFixes(priorities)]
                  @@ RenderScores(analysis)
  /\ Frame

\* Lines 706-730: the publish block builds the PR body from the same names.
BuildPrBody ==
  /\ view.stage = "rendered"
  /\ OffersPublish(analysis_results)
  /\ LET priorities == Get(analysis_results.analysis, "priority_fixes", <<>>)
     IN view' = [stage |-> "body", pr_lines |-> PrBodyFixes(priorities)] @@ view
  /\ Frame

NextRender ==
  \/ RenderResults
  \/ BuildPrBody

SpecRender == InitRender /\ [][NextRender]_vars

\* ================================================================ claims
Pipeline ==
  <<"get_repo_files", "get_repo_structure", "deep_analyze",
    "generate_missing_docstrings">>
IsPrefix(s, t) == Len(s) <= Len(t) /\ s = SubSeq(t, 1, Len(s))
HasResults == ~IsNone(analysis_results)
\* The last execution was an analysis run that ended in the except branch.
StageFailed == \E m \in msgs : m.text = "Error during analysis"
\* The last execution was an analysis run whose FileSet was empty.
EmptyFileSet == run_locals.returned = 1 /\ calls = <<"get_repo_files">> /\ ~StageFailed
\* The last execution was an analysis run in which all four calls returned.
RunCompleted == run_locals.returned = 4
\* Every entry of the mapping d carries the label of run r.
AllFromRun(d, r) == \A p \in DOMAIN d : d[p].run = r

\* C1: after an analysis run in which a stage failed, no earlier report is
\* displayed as the result and none is offered for publishing.
C1_NoFallbackAfterFailure == StageFailed => ~displayed /\ ~offered

\* C2: the stored results are absent, or an AnalysisReport and a DocPatchSet of
\* one run in which all four stages completed; and an execution that ends in a
\* stage failure leaves analysis_results and analysis_complete as they were.
C2_StoredFromOneCompletedRun ==
  HasResults =>
    /\ analysis_results.analysis.run \in completed
    /\ AllFromRun(analysis_results.updated_files, analysis_results.analysis.run)
C2_FailedRunWritesNothing ==
  StageFailed' => UNCHANGED <<analysis_complete, analysis_results>>
C2_AllOrNothing ==
  [](C2_StoredFromOneCompletedRun) /\ [][C2_FailedRunWritesNothing]_vars
\* A run failed in synthesize, after analyze had returned, with results stored.
C2_Witness ==
  /\ E_ANALYSIS("generate_missing_docstrings") \in msgs
  /\ run_locals.returned = 3
  /\ HasResults

\* C3: the calls of one execution are a prefix of the pipeline order, or the
\* single create_pull_request of a publish confirmation, which happens only
\* with results that an earlier completed run stored.
C3_CallOrder ==
  /\ IsPrefix(calls, Pipeline) \/ calls = <<"create_pull_request">>
  /\ (calls = <<"create_pull_request">> =>
        /\ analysis_complete /\ HasResults
        /\ analysis_results.analysis.run \in completed
        /\ run_locals.returned = 0)
  /\ Len(calls) >= run_locals.returned
C3_Witness == calls = Pipeline /\ RunCompleted /\ offered

\* C4: any two create_pull_request calls of a session use different branch names.
C4_BranchNamesDistinct ==
  \A i, j \in 1..Len(branches) : i # j => branches[i] # branches[j]

\* C5: an execution that fetched an empty FileSet made no call after
\* get_repo_files, reported no exception, and left analysis_results and
\* analysis_complete as they were.
C5_EmptyFileSetStep ==
  EmptyFileSet' =>
    /\ calls' = <<"get_repo_files">>
    /\ \A m \in msgs' : m.cause = ""
    /\ UNCHANGED <<analysis_complete, analysis_results>>
C5_EmptyFileSetGraceful == [][C5_EmptyFileSetStep]_vars
C5_Witness == EmptyFileSet /\ HasResults /\ displayed

\* C6: an empty FileSet and an empty DocPatchSet both end the run in a
\* non-error outcome: no error is reported for either, the empty FileSet's
\* report differs from a fetch failure's, and the run with the empty
\* DocPatchSet stored its report.
C6_EmptyIsNotAnError ==
  /\ EmptyFileSet => \A m \in msgs : m.level # "error"
  /\ E_NOFILES # E_ANALYSIS("get_repo_files")
  /\ (RunCompleted /\ run_locals.updated_files = Unbound =>
        /\ analysis_complete /\ HasResults
        /\ analysis_results.analysis = run_locals.analysis
        /\ \A m \in msgs : m.level # "error")

\* C7: create_pull_request is never called with an empty DocPatchSet.
C7_PublishNonEmpty ==
  ~IsNone(pr_call) =>
    /\ DOMAIN pr_call.files_to_update # {}
    /\ HasResults
    /\ DOMAIN analysis_results.updated_files # {}
C7_Witness == ~IsNone(pr_call) /\ calls = <<"create_pull_request">>

\* C8: after a completed run the stored results are exactly that run's
\* analysis, updated_files, total_files and repo_url, and every entry of the
\* stored report and patch set is that run's.
C8_ReplacedWholesale ==
  RunCompleted =>
    /\ analysis_complete
    /\ analysis_results =
         [tag |-> "dict", analysis |-> run_locals.analysis,
          updated_files |-> run_locals.updated_files,
          total_files |-> Cardinality(DOMAIN run_locals.files),
          repo_url |-> repo_url]
    /\ analysis_results.analysis.run = runs
    /\ AllFromRun(analysis_results.updated_files, runs)
\* A second completed run, after a first completed run had stored its results.
C8_Witness == RunCompleted /\ completed = {1, 2} /\ runs = 2

\* C9: the session stays ready: whenever the inputs are non-empty a run whose
\* collaborators all succeed can be started, whatever came before, and a run
\* whose collaborators all succeeded has stored its results.
SuccessfulRun ==
  \E o \in Oracles :
    /\ o.fetch = "ok" /\ o.paths # {} /\ o.structure = "ok"
    /\ o.analyze = "ok" /\ o.synth = "ok"
    /\ Rerun(repo_url, google_api_key, github_token, TRUE, FALSE, o, "none")
    /\ analysis_complete' /\ ~IsNone(analysis_results')
    /\ analysis_results'.analysis.run = runs'
    /\ runs' = runs + 1
C9_SessionStaysReady ==
  /\ (runs < MaxRuns /\ StrTruthy(repo_url) /\ HaveKeys(google_api_key, github_token)
        => ENABLED SuccessfulRun)
  /\ (RunCompleted => analysis_complete /\ HasResults
                        /\ analysis_results.analysis.run = runs)
\* A run completed and stored its results after an earlier run that ended in
\* a stage failure or an empty FileSet.
C9_Witness ==
  /\ RunCompleted /\ runs = 2 /\ completed = {2}
  /\ analysis_complete /\ analysis_results.analysis.run = 2

\* C10: the stored repo_url, analysis and updated_files come from one run on
\* that repository, and create_pull_request receives the stored repo_url and
\* updated_files, whatever the URL input holds by then.
C10_PublishTargetsAnalysedRepo ==
  /\ HasResults =>
       /\ analysis_results.analysis.src = analysis_results.repo_url
       /\ \A p \in DOMAIN analysis_results.updated_files :
            /\ analysis_results.updated_files[p].src = analysis_results.repo_url
            /\ analysis_results.updated_files[p].run = analysis_results.analysis.run
  /\ ~IsNone(pr_call) =>
       /\ HasResults
       /\ pr_call.repo_url = analysis_results.repo_url
       /\ pr_call.files_to_update = analysis_results.updated_files
       /\ \A p \in DOMAIN pr_call.files_to_update :
            pr_call.files_to_update[p].src = pr_call.repo_url
\* A publish call made after the URL input was changed.
C10_Witness == ~IsNone(pr_call) /\ repo_url # pr_call.repo_url

\* The last execution called a collaborator of the analysis pipeline.
PipelineCalled == \E i \in 1..Len(calls) : \E j \in 1..Len(Pipeline) : calls[i] = Pipeline[j]
AllInputsGiven ==
  StrTruthy(repo_url) /\ StrTruthy(google_api_key) /\ StrTruthy(github_token)

\* C13: a pipeline call is made only in an execution whose repository URL,
\* API key and hosting token are all non-empty; an Analyze click with any of
\* them empty makes no call and leaves analysis_results and analysis_complete
\* as they were.
C13_CallsNeedAllInputs == PipelineCalled => AllInputsGiven
C13_RejectedClickStep ==
  analyze_clicked' /\ ~AllInputsGiven' =>
    /\ calls' = <<>>
    /\ run_locals'.returned = 0
    /\ UNCHANGED <<analysis_complete, analysis_results, runs>>
C13_GuardedRun == [](C13_CallsNeedAllInputs) /\ [][C13_RejectedClickStep]_vars
\* Analyze was clicked with URL and API key given and the token empty, with
\* results of an earlier run stored.
C13_Witness ==
  /\ analyze_clicked /\ StrTruthy(repo_url) /\ StrTruthy(google_api_key)
  /\ ~StrTruthy(github_token) /\ HasResults /\ E_KEYS \in msgs

\* C14: every create_pull_request call is made through a GitHubHelper built
\* with a non-empty token.
C14_PublishTokenNonEmpty == ~IsNone(pr_call) => StrTruthy(pr_call.token)

\* C15: an execution that attempts a publish leaves analysis_results and
\* analysis_complete as they were and calls nothing but create_pull_request;
\* it reports success exactly when a URL came back, and an error otherwise.
C15_PublishStep ==
  pr_url' # "unset" =>
    /\ UNCHANGED <<analysis_complete, analysis_results, runs>>
    /\ calls' = <<"create_pull_request">>
    /\ run_locals'.returned = 0
    /\ (S_PR \in msgs' <=> pr_url' = "url")
    /\ ((\E m \in msgs' : m.level = "error") <=> pr_url' \in {"none", "raise"})
    /\ (pr_url' = "none" => E_PR_FAILED \in msgs')
    /\ (pr_url' = "raise" => E_PR_ERROR("create_pull_request") \in msgs')
C15_PublishFrame == [][C15_PublishStep]_vars
\* A publish attempt that raised, with results stored.
C15_Witness == pr_url = "raise" /\ ~IsNone(pr_call) /\ HasResults

\* The report and the priority fixes that the session holds.
StoredReport == analysis_results.analysis
StoredFixes == Get(StoredReport, "priority_fixes", <<>>)
StoredScores == Get(StoredReport, "scores", Unbound)

\* C11: whatever the report omits, the chart plots exactly seven values, one
\* per dimension in the fixed order, and every tab has a score; each is on the
\* 0-100 scale, an omitted dimension scores 0 and an omitted detail is the
\* empty object.
C11_SevenScores ==
  view.stage # "none" =>
    /\ Len(view.chart) = 7
    /\ DOMAIN view.tabs = DimensionSet
    /\ Cardinality(DimensionSet) = 7
    /\ \A i \in 1..7 :
         LET d == Dimensions[i]
         IN /\ view.chart[i] \in 0..MaxScore
            /\ view.tabs[d].score = view.chart[i]
            /\ (d \in DOMAIN StoredScores => view.chart[i] = StoredScores[d])
            /\ (d \notin DOMAIN StoredScores => view.chart[i] = 0)
            /\ (d \in DOMAIN StoredReport => view.tabs[d].detail = StoredReport[d])
            /\ (d \notin DOMAIN StoredReport => DOMAIN view.tabs[d].detail = {})
\* A rendered report that has scores but neither a dependencies score nor a
\* dependencies detail.
C11_Witness ==
  /\ view.stage = "rendered"
  /\ "scores" \in DOMAIN StoredReport
  /\ "security" \in DOMAIN StoredScores
  /\ "dependencies" \notin DOMAIN StoredScores
  /\ "dependencies" \notin DOMAIN StoredReport
  /\ view.tabs["dependencies"].score = 0

\* C12: the listed fixes and the PR body's fix lines are the first min(5, n)
\* entries of priority_fixes, in its order.
C12_FixesInOrder ==
  LET n == Len(StoredFixes)
      k == IF n < 5 THEN n ELSE 5
  IN /\ (view.stage # "none" =>
          /\ Len(view.fixes) = k
          /\ \A i \in 1..k : view.fixes[i] = StoredFixes[i])
     /\ (view.stage = "body" =>
          /\ Len(view.pr_lines) = k
          /\ \A i \in 1..k :
               view.pr_lines[i] =
                 <<"- ", StoredFixes[i].category, ": ", StoredFixes[i].action>>)
\* A PR body built from six fixes, a LOW one in front of a HIGH one.
C12_Witness ==
  /\ view.stage = "body"
  /\ Len(StoredFixes) = 6
  /\ StoredFixes[1].priority = "LOW"
  /\ StoredFixes[2].priority = "HIGH"
  /\ Len(view.pr_lines) = 5

====
